---- MODULE Spec2Model ----
(***************************************************************************)
(* Model of app.py, the Streamlit "Product Components Analyzer".           *)
(*                                                                         *)
(* Two specifications:                                                     *)
(*   SpecResize  resize_image_for_display as a function of its input       *)
(*               (dimensions, decodability, stream cursor);                *)
(*   Spec        the script runs of the sessions of one server process:    *)
(*               module top level, main() with its three input flows,      *)
(*               save_uploaded_file, get_agent, analyze_image.             *)
(***************************************************************************)
EXTENDS Integers, Sequences, FiniteSets

\* ------------------------------------------------------------------------
\* Program constants
\* ------------------------------------------------------------------------

MAX_IMAGE_WIDTH == 350

\* Python floats are IEEE-754 binary64: 53 significant bits.
MantBits == 53

\* ------------------------------------------------------------------------
\* Bounds
\* ------------------------------------------------------------------------

\* Image widths and heights fed to resize_image_for_display.
Widths == {1, 5, 7, 350, 351, 700, 1000}
Heights == {1, 2, 3, 7, 350, 500}

\* Length (in abstract read units) of an uploaded stream.
StreamLen == 3

\* Browser sessions served by the one server process, each with its own
\* st.session_state and its own script thread.
Sessions == {"s1", "s2"}

\* Example cards shown on the first tab (the script shows four, lines
\* 129-134; they differ only in name and path).
NumExamples == 2

\* Agent constructions the process may perform in all.
MaxAgents == 2

\* The count of example analyses since the last selection saturates here.
MaxCalls == 2

\* ------------------------------------------------------------------------
\* binary64 arithmetic on bit sequences (most significant bit first).
\* A float is [m |-> <<b1..b53>>, e |-> k], denoting m * 2^k with b1 = 1.
\* The recursions carry accumulators; the tests on an accumulator in their
\* base cases are never true and only make TLC evaluate it at every level.
\* ------------------------------------------------------------------------

\* The value of the first n bits of bits, acc being the value so far.
RECURSIVE BitsToIntAcc(_, _, _, _)
BitsToIntAcc(bits, i, n, acc) ==
    IF i > n \/ acc < 0 THEN acc
    ELSE BitsToIntAcc(bits, i + 1, n, 2 * acc + bits[i])

BitsToInt(bits) == BitsToIntAcc(bits, 1, Len(bits), 0)

RECURSIVE IntToBits(_)
IntToBits(n) ==
    IF n = 0 THEN << >> ELSE Append(IntToBits(n \div 2), n % 2)

\* bits + 1; the result is one bit longer when every bit was 1.
RECURSIVE IncBits(_)
IncBits(bits) ==
    IF bits = << >> THEN <<1>>
    ELSE IF bits[Len(bits)] = 0
         THEN Append(SubSeq(bits, 1, Len(bits) - 1), 1)
         ELSE Append(IncBits(SubSeq(bits, 1, Len(bits) - 1)), 0)

\* Round an exact value bits * 2^e, with `more` saying whether non-zero
\* digits follow below bits, to MantBits bits: round half to even.
RoundToDouble(bits, e, more) ==
    LET n == Len(bits)
        kept == SubSeq(bits, 1, MantBits)
        guard == IF n > MantBits THEN bits[MantBits + 1] ELSE 0
        sticky == more \/ \E i \in (MantBits + 2)..n : bits[i] = 1
        up == guard = 1 /\ (sticky \/ kept[MantBits] = 1)
        r == IF up THEN IncBits(kept) ELSE kept
        e1 == e + (n - MantBits)
    IN  IF Len(r) > MantBits
        THEN [m |-> SubSeq(r, 1, MantBits), e |-> e1 + 1]
        ELSE [m |-> r, e |-> e1]

\* Long division: n further quotient bits of rem / den, rem < den.
RECURSIVE DivBits(_, _, _, _)
DivBits(bits, rem, den, n) ==
    IF n = 0 \/ Len(bits) = 0 THEN [bits |-> bits, rem |-> rem]
    ELSE LET b == IF 2 * rem >= den THEN 1 ELSE 0
         IN  DivBits(Append(bits, b), 2 * rem - b * den, den, n - 1)

\* Scale h / w into [1, 2): h / w = (num / den) * 2^k, den <= num < 2 den.
RECURSIVE Normalise(_, _, _)
Normalise(num, den, k) ==
    IF num < den THEN Normalise(2 * num, den, k - 1)
    ELSE IF num >= 2 * den THEN Normalise(num, 2 * den, k + 1)
    ELSE [num |-> num, den |-> den, k |-> k]

\* h / w in Python (int / int true division, correctly rounded), h, w >= 1.
TrueDiv(h, w) ==
    LET s == Normalise(h, w, 0)
        \* MantBits + 1 bits: the mantissa and the guard bit
        q == DivBits(<<1>>, s.num - s.den, s.den, MantBits)
    IN  RoundToDouble(q.bits, s.k - MantBits, q.rem # 0)

\* bits[1..i] * c + carry for a small positive integer c, exactly; acc holds
\* the product bits already produced (below position i).
RECURSIVE MulBitsAcc(_, _, _, _, _)
MulBitsAcc(bits, i, c, carry, acc) ==
    IF i = 0 \/ Len(acc) < 0 THEN IntToBits(carry) \o acc
    ELSE LET t == c * bits[i] + carry
         IN  MulBitsAcc(bits, i - 1, c, t \div 2, <<t % 2>> \o acc)

MulBits(bits, c) == MulBitsAcc(bits, Len(bits), c, 0, << >>)

\* c * x in Python for an int c >= 1 and a float x > 0.
FloatMul(c, x) == RoundToDouble(MulBits(x.m, c), x.e, FALSE)

\* int(x) for a float 0 < x < 2^31: truncation.
FloatToInt(x) ==
    IF x.e >= 0 THEN BitsToInt(x.m) * (2 ^ x.e)
    ELSE IF MantBits + x.e <= 0 THEN 0
    ELSE BitsToInt(SubSeq(x.m, 1, MantBits + x.e))

\* Lines 56-57: aspect_ratio = img.height / img.width;
\*              new_height = int(MAX_IMAGE_WIDTH * aspect_ratio)
NewHeight(w, h) == FloatToInt(FloatMul(MAX_IMAGE_WIDTH, TrueDiv(h, w)))

\* ------------------------------------------------------------------------
\* resize_image_for_display
\* ------------------------------------------------------------------------

\* What Image.open finds behind image_file: an image of w x h pixels, or
\* nothing it can identify (corrupt bytes, a missing file).
Images ==
    [ok : {TRUE}, w : Widths, h : Heights] \cup {[ok |-> FALSE, w |-> 0, h |-> 0]}

\* image_file: a path (str) or a stream with its read cursor at pos.
Inputs ==
    [src : {"path"}, img : Images, pos : {0}]
        \cup [src : {"stream"}, img : Images, pos : 0..StreamLen]

NoInput == [src |-> "none", img |-> [ok |-> FALSE, w |-> 0, h |-> 0], pos |-> 0]
NoOutput == [status |-> "none", w |-> 0, h |-> 0, pos |-> 0]

\* Where a read of a non-empty stream can leave the cursor.
ReadPositions == 1..StreamLen

\* Lines 50-62.  The set of results of resize_image_for_display(inp): the
\* status ("ok" with the dimensions of the returned PNG, or "raised") and
\* the read cursor of the stream afterwards.
\*  - Image.open (51, 53) rewinds a stream and reads the header; it raises
\*    when it identifies no image, having read from the stream.
\*  - image_file.seek(0) (54) runs only after a successful open.
\*  - Image.open is lazy: img.resize (58) loads the pixel data, reading the
\*    stream again, and raises ValueError unless both sizes are >= 1.
ResizeResults(inp) ==
    LET stream == inp.src = "stream"
        nh == NewHeight(inp.img.w, inp.img.h)
        after == IF stream THEN ReadPositions ELSE {inp.pos}
    IN  IF ~inp.img.ok
        THEN {[status |-> "raised", w |-> 0, h |-> 0, pos |-> p] : p \in after}
        ELSE IF nh < 1
        THEN {[status |-> "raised", w |-> 0, h |-> 0, pos |-> p] : p \in after}
        ELSE {[status |-> "ok", w |-> MAX_IMAGE_WIDTH, h |-> nh, pos |-> p] :
                  p \in after}

\* resize_image_for_display on every argument of Inputs.
ResizeTable == [inp \in Inputs |-> ResizeResults(inp)]

\* What a flow of main() sees of a call: whether the image behind src was
\* decodable, and whether the call returned or raised.
CallOutcomes(src) ==
    {[decodable |-> inp.img.ok, status |-> r.status] :
        <<inp, r>> \in UNION {{<<i, o>> : o \in ResizeTable[i]} :
                                 i \in {j \in Inputs : j.src = src /\ j.pos = 0}}}

StreamOutcomes == CallOutcomes("stream")

PathOutcomes == CallOutcomes("path")

\* ------------------------------------------------------------------------
\* State
\* ------------------------------------------------------------------------

VARIABLES
    secrets,           \* keys present in st.secrets
    agentCache,        \* st.cache_resource entry of get_agent: 0 or an Agent
    constructed,       \* Agent instances constructed so far
    disk,              \* temporary files of the current runs that exist
    pc,                \* per session: where its script run stands
    pressed,           \* per session: the analyze button that caused the run
    selected_example,  \* st.session_state.selected_example (0 is None)
    analyze_clicked,   \* st.session_state.analyze_clicked
    flow,              \* per session: the flow that called analyze_image
    created,           \* per session: file NamedTemporaryFile made this run
    temp_path,         \* per session: what save_uploaded_file returned
    agent,             \* per session: the Agent analyze_image holds
    ev,                \* per session: <<exception, message>> of its last step
    undecoded,         \* per session: a stream of this run failed to decode
    exampleCalls,      \* per session: agent.run calls since the last selection
    imgIn,             \* SpecResize: the argument of the call
    imgOut             \* SpecResize: its result

uiVars ==
    <<secrets, agentCache, constructed, disk, pc, pressed,
      selected_example, analyze_clicked, flow, created, temp_path, agent, ev,
      undecoded, exampleCalls>>

vars == <<uiVars, imgIn, imgOut>>

Examples == 1..NumExamples
Keys == {"TAVILY_KEY", "GEMINI_KEY"}
AnalyzeButtons == {"analyze_upload", "analyze_camera", "analyze_example"}

Quiet == <<"none", "none">>

\* No file: the None of line 98, and temp_path before line 154 / 174.
NoFile == "none"

\* NamedTemporaryFile gives every file a name no other file has.  A file is
\* named here by the session whose current run created it (a run creates at
\* most one).  A file that an ended run left behind stays in the directory,
\* but no later code can name it: disk tracks the files of current runs.
FileOf(s) == s

\* The flow main() renders after flow f (lines 141, 162, 182, 196).
NextFlow(f) ==
    IF f = "upload" THEN "camera" ELSE IF f = "camera" THEN "example" ELSE "idle"

\* The analyze button of flow f (lines 153, 173, 190).
ButtonOf(f) ==
    IF f = "upload" THEN "analyze_upload"
    ELSE IF f = "camera" THEN "analyze_camera" ELSE "analyze_example"

\* The st.error of the except clause around flow f (lines 159, 179, 194).
ProcessingError(f) ==
    IF f = "upload" THEN "Error processing uploaded image"
    ELSE IF f = "camera" THEN "Error processing captured photo"
    ELSE "Error processing example image"

InitUI ==
    /\ secrets \in SUBSET Keys
    /\ agentCache = 0
    /\ constructed = 0
    /\ disk = {}
    /\ pc = [s \in Sessions |-> "idle"]
    /\ pressed = [s \in Sessions |-> "none"]
    /\ selected_example = [s \in Sessions |-> 0]
    /\ analyze_clicked = [s \in Sessions |-> FALSE]
    /\ flow = [s \in Sessions |-> "none"]
    /\ created = [s \in Sessions |-> NoFile]
    /\ temp_path = [s \in Sessions |-> NoFile]
    /\ agent = [s \in Sessions |-> 0]
    /\ ev = [s \in Sessions |-> Quiet]
    /\ undecoded = [s \in Sessions |-> FALSE]
    /\ exampleCalls = [s \in Sessions |-> 0]

Init == InitUI /\ imgIn = NoInput /\ imgOut = NoOutput

\* ------------------------------------------------------------------------
\* Script runs
\* ------------------------------------------------------------------------

\* Faulty variant: line 13 reads GEMINI_KEY with a default instead of subscripting.
SecretsOnlyTavily == "TAVILY_KEY" \in secrets

\* Lines 12-13: both subscriptions of st.secrets succeed.
SecretsPresent == Keys \subseteq secrets

\* A rerun of the script for session s, caused by pressing one button (an
\* example card or an analyze button) or by another widget change.
\* Lines 12-13 raise KeyError when a key is missing and the run is over.
\* Otherwise main() starts: lines 114-117 keep the session state, and the
\* cards (100-107, 137-138) record a pressed card.
StartRun(s) ==
    /\ pc[s] \in {"idle", "failed"}
    /\ \E btn \in AnalyzeButtons \cup {"none"}, card \in {0} \cup Examples :
        /\ btn = "none" \/ card = 0
        /\ flow' = [flow EXCEPT ![s] = "none"]
        /\ created' = [created EXCEPT ![s] = NoFile]
        /\ temp_path' = [temp_path EXCEPT ![s] = NoFile]
        /\ disk' = disk \ {FileOf(s)}
        /\ agent' = [agent EXCEPT ![s] = 0]
        /\ undecoded' = [undecoded EXCEPT ![s] = FALSE]
        /\ IF ~SecretsPresent
           THEN /\ pc' = [pc EXCEPT ![s] = "failed"]
                /\ ev' = [ev EXCEPT ![s] = <<"KeyError", "uncaught">>]
                /\ pressed' = [pressed EXCEPT ![s] = "none"]
                /\ UNCHANGED <<selected_example, analyze_clicked, exampleCalls>>
           ELSE /\ pc' = [pc EXCEPT ![s] = "upload"]
                /\ ev' = [ev EXCEPT ![s] = Quiet]
                /\ pressed' = [pressed EXCEPT ![s] = btn]
                /\ IF card # 0
                   THEN /\ selected_example' = [selected_example EXCEPT ![s] = card]
                        /\ analyze_clicked' = [analyze_clicked EXCEPT ![s] = FALSE]
                        /\ exampleCalls' = [exampleCalls EXCEPT ![s] = 0]
                   ELSE UNCHANGED <<selected_example, analyze_clicked, exampleCalls>>
    /\ UNCHANGED <<secrets, agentCache, constructed, imgIn, imgOut>>

\* Lines 90-98, called from line 154 or 174 by session s in flow f.
\* NamedTemporaryFile(delete=False) may fail to create the file; once
\* created, the file stays whether or not f.write succeeds.
SaveUploadedFile(s, f) ==
    \E outcome \in {"saved", "write_failed", "create_failed"} :
        LET name == FileOf(s) IN
        /\ pressed' = [pressed EXCEPT ![s] = "none"]
        /\ IF outcome = "create_failed"
           THEN UNCHANGED <<disk, created>>
           ELSE /\ disk' = disk \cup {name}
                /\ created' = [created EXCEPT ![s] = name]
        /\ IF outcome = "saved"
           THEN \* line 95 returns f.name; line 156 calls analyze_image
                /\ temp_path' = [temp_path EXCEPT ![s] = name]
                /\ flow' = [flow EXCEPT ![s] = f]
                /\ pc' = [pc EXCEPT ![s] = "get_agent"]
                /\ ev' = [ev EXCEPT ![s] = Quiet]
           ELSE \* lines 96-98: st.error, return None; line 155 skips
                /\ ev' = [ev EXCEPT ![s] = <<outcome, "Error saving file">>]
                /\ pc' = [pc EXCEPT ![s] = NextFlow(f)]
                /\ UNCHANGED <<temp_path, flow>>

\* A press of the button of flow f is lost when the run does not reach the
\* st.button call that would report it.
Unrendered(btn, f) == IF btn = ButtonOf(f) THEN "none" ELSE btn

\* Faulty variant: the stream is saved before it is decoded, so a stream that fails
\* to decode has already left a file behind.
InputFlowSaveFirst(s, f) ==
    /\ pc[s] = f
    /\ f \in {"upload", "camera"}
    /\ \/ /\ pc' = [pc EXCEPT ![s] = NextFlow(f)]
          /\ ev' = [ev EXCEPT ![s] = Quiet]
          /\ pressed' = [pressed EXCEPT ![s] = Unrendered(@, f)]
          /\ UNCHANGED <<disk, created, temp_path, flow, undecoded>>
       \/ \E r \in StreamOutcomes :
            IF pressed[s] # ButtonOf(f)
            THEN /\ pc' = [pc EXCEPT ![s] = NextFlow(f)]
                 /\ ev' = [ev EXCEPT ![s] =
                        IF r.status = "raised"
                        THEN <<IF r.decodable THEN "resize" ELSE "decode",
                               ProcessingError(f)>>
                        ELSE Quiet]
                 /\ undecoded' = [undecoded EXCEPT ![s] =
                        @ \/ ~r.decodable]
                 /\ UNCHANGED <<disk, created, temp_path, flow,
                                pressed>>
            ELSE IF r.status = "raised"
            THEN /\ disk' = disk \cup {FileOf(s)}
                 /\ created' = [created EXCEPT ![s] = FileOf(s)]
                 /\ undecoded' = [undecoded EXCEPT ![s] = @ \/ ~r.decodable]
                 /\ ev' = [ev EXCEPT ![s] =
                        <<IF r.decodable THEN "resize" ELSE "decode",
                          ProcessingError(f)>>]
                 /\ pc' = [pc EXCEPT ![s] = NextFlow(f)]
                 /\ pressed' = [pressed EXCEPT ![s] = "none"]
                 /\ UNCHANGED <<temp_path, flow>>
            ELSE /\ SaveUploadedFile(s, f)
                 /\ UNCHANGED undecoded
    /\ UNCHANGED <<secrets, agentCache, constructed, selected_example,
                   analyze_clicked, agent, exampleCalls, imgIn, imgOut>>

\* Lines 149-159 (f = "upload") and 169-179 (f = "camera") for session s.
\* The widget holds no file, or a stream positioned at its start.
InputFlow(s, f) ==
    /\ pc[s] = f
    /\ f \in {"upload", "camera"}
    /\ \/ \* line 149 / 169: nothing uploaded
          /\ pc' = [pc EXCEPT ![s] = NextFlow(f)]
          /\ ev' = [ev EXCEPT ![s] = Quiet]
          /\ pressed' = [pressed EXCEPT ![s] = Unrendered(@, f)]
          /\ UNCHANGED <<disk, created, temp_path, flow, undecoded>>
       \/ \E r \in StreamOutcomes :
            IF r.status = "raised"
            THEN \* line 151 / 171 raises into line 158 / 178
                 /\ ev' = [ev EXCEPT ![s] =
                        <<IF r.decodable THEN "resize" ELSE "decode",
                          ProcessingError(f)>>]
                 /\ undecoded' = [undecoded EXCEPT ![s] = @ \/ ~r.decodable]
                 /\ pc' = [pc EXCEPT ![s] = NextFlow(f)]
                 /\ pressed' = [pressed EXCEPT ![s] = Unrendered(@, f)]
                 /\ UNCHANGED <<disk, created, temp_path, flow>>
            ELSE IF pressed[s] = ButtonOf(f)
            THEN /\ SaveUploadedFile(s, f)
                 /\ UNCHANGED undecoded
            ELSE /\ pc' = [pc EXCEPT ![s] = NextFlow(f)]
                 /\ ev' = [ev EXCEPT ![s] = Quiet]
                 /\ UNCHANGED <<disk, created, temp_path, flow,
                                pressed, undecoded>>
    /\ UNCHANGED <<secrets, agentCache, constructed, selected_example,
                   analyze_clicked, agent, exampleCalls, imgIn, imgOut>>

UploadFlow(s) == InputFlow(s, "upload")

CameraFlow(s) == InputFlow(s, "camera")

\* Faulty variant: line 190 without "and not st.session_state.analyze_clicked".
ExampleFlowNoGuard(s) ==
    /\ pc[s] = "example"
    /\ IF selected_example[s] = 0
       THEN /\ pc' = [pc EXCEPT ![s] = "idle"]
            /\ ev' = [ev EXCEPT ![s] = Quiet]
            /\ pressed' = [pressed EXCEPT ![s] = "none"]
            /\ UNCHANGED <<analyze_clicked, flow>>
       ELSE \E r \in PathOutcomes :
              IF r.status = "raised"
              THEN /\ ev' = [ev EXCEPT ![s] =
                          <<IF r.decodable THEN "resize" ELSE "decode",
                            ProcessingError("example")>>]
                   /\ pc' = [pc EXCEPT ![s] = "idle"]
                   /\ pressed' = [pressed EXCEPT ![s] = "none"]
                   /\ UNCHANGED <<analyze_clicked, flow>>
              ELSE IF pressed[s] = "analyze_example"
              THEN /\ analyze_clicked' = [analyze_clicked EXCEPT ![s] = TRUE]
                   /\ flow' = [flow EXCEPT ![s] = "example"]
                   /\ pressed' = [pressed EXCEPT ![s] = "none"]
                   /\ pc' = [pc EXCEPT ![s] = "get_agent"]
                   /\ ev' = [ev EXCEPT ![s] = Quiet]
              ELSE /\ pc' = [pc EXCEPT ![s] = "idle"]
                   /\ ev' = [ev EXCEPT ![s] = Quiet]
                   /\ pressed' = [pressed EXCEPT ![s] = "none"]
                   /\ UNCHANGED <<analyze_clicked, flow>>
    /\ UNCHANGED <<secrets, agentCache, constructed, disk,
                   selected_example, created, temp_path, agent, undecoded,
                   exampleCalls, imgIn, imgOut>>

\* Lines 182-194 for session s, then the footer: the run is over unless
\* analyze_image is called.
ExampleFlow(s) ==
    /\ pc[s] = "example"
    /\ IF selected_example[s] = 0
       THEN /\ pc' = [pc EXCEPT ![s] = "idle"]
            /\ ev' = [ev EXCEPT ![s] = Quiet]
            /\ pressed' = [pressed EXCEPT ![s] = "none"]
            /\ UNCHANGED <<analyze_clicked, flow>>
       ELSE \E r \in PathOutcomes :
              IF r.status = "raised"
              THEN \* line 187 raises into line 193
                   /\ ev' = [ev EXCEPT ![s] =
                          <<IF r.decodable THEN "resize" ELSE "decode",
                            ProcessingError("example")>>]
                   /\ pc' = [pc EXCEPT ![s] = "idle"]
                   /\ pressed' = [pressed EXCEPT ![s] = "none"]
                   /\ UNCHANGED <<analyze_clicked, flow>>
              ELSE IF pressed[s] = "analyze_example" /\ ~analyze_clicked[s]
              THEN \* lines 191-192
                   /\ analyze_clicked' = [analyze_clicked EXCEPT ![s] = TRUE]
                   /\ flow' = [flow EXCEPT ![s] = "example"]
                   /\ pressed' = [pressed EXCEPT ![s] = "none"]
                   /\ pc' = [pc EXCEPT ![s] = "get_agent"]
                   /\ ev' = [ev EXCEPT ![s] = Quiet]
              ELSE /\ pc' = [pc EXCEPT ![s] = "idle"]
                   /\ ev' = [ev EXCEPT ![s] = Quiet]
                   /\ pressed' = [pressed EXCEPT ![s] = "none"]
                   /\ UNCHANGED <<analyze_clicked, flow>>
    /\ UNCHANGED <<secrets, agentCache, constructed, disk,
                   selected_example, created, temp_path, agent, undecoded,
                   exampleCalls, imgIn, imgOut>>

\* Faulty variant: get_agent without @st.cache_resource: every call constructs.
GetAgentUncached(s) ==
    /\ pc[s] = "get_agent"
    /\ \/ /\ constructed < MaxAgents
          /\ constructed' = constructed + 1
          /\ agentCache' = constructed + 1
          /\ agent' = [agent EXCEPT ![s] = constructed + 1]
          /\ pc' = [pc EXCEPT ![s] = "agent_run"]
          /\ ev' = [ev EXCEPT ![s] = Quiet]
       \/ /\ ev' = [ev EXCEPT ![s] =
                 <<"agent_init", ProcessingError(flow[s])>>]
          /\ pc' = [pc EXCEPT ![s] = NextFlow(flow[s])]
          /\ UNCHANGED <<agentCache, constructed, agent>>
    /\ UNCHANGED <<secrets, disk, pressed, selected_example,
                   analyze_clicked, flow, created, temp_path, undecoded,
                   exampleCalls, imgIn, imgOut>>

\* Line 77 with lines 64-73: st.cache_resource returns the cached Agent, or
\* runs get_agent under its lock and caches what it returns; when the
\* constructor raises nothing is cached and the exception leaves
\* analyze_image for the except clause of the calling flow.
GetAgent(s) ==
    /\ pc[s] = "get_agent"
    /\ IF agentCache # 0
       THEN /\ agent' = [agent EXCEPT ![s] = agentCache]
            /\ pc' = [pc EXCEPT ![s] = "agent_run"]
            /\ ev' = [ev EXCEPT ![s] = Quiet]
            /\ UNCHANGED <<agentCache, constructed>>
       ELSE \/ /\ constructed < MaxAgents
               /\ constructed' = constructed + 1
               /\ agentCache' = constructed + 1
               /\ agent' = [agent EXCEPT ![s] = constructed + 1]
               /\ pc' = [pc EXCEPT ![s] = "agent_run"]
               /\ ev' = [ev EXCEPT ![s] = Quiet]
            \/ /\ ev' = [ev EXCEPT ![s] =
                      <<"agent_init", ProcessingError(flow[s])>>]
               /\ pc' = [pc EXCEPT ![s] = NextFlow(flow[s])]
               /\ UNCHANGED <<agentCache, constructed, agent>>
    /\ UNCHANGED <<secrets, disk, pressed, selected_example,
                   analyze_clicked, flow, created, temp_path, undecoded,
                   exampleCalls, imgIn, imgOut>>

\* The count of example analyses, saturating.
Bump(n) == IF n < MaxCalls THEN n + 1 ELSE n

\* Faulty variant: analyze_image without its try/except, so that an exception of
\* agent.run reaches the except clause of the calling flow and skips the
\* unlink.
AgentRunUncaught(s) ==
    /\ pc[s] = "agent_run"
    /\ \E raised \in BOOLEAN :
        /\ ev' = [ev EXCEPT ![s] =
                  IF raised THEN <<"agent_run", ProcessingError(flow[s])>>
                  ELSE <<"none", "Analysis Results">>]
        /\ disk' = IF ~raised /\ flow[s] \in {"upload", "camera"}
                   THEN disk \ {temp_path[s]} ELSE disk
    /\ exampleCalls' = [exampleCalls EXCEPT ![s] =
           IF flow[s] = "example" THEN Bump(@) ELSE @]
    /\ pc' = [pc EXCEPT ![s] = NextFlow(flow[s])]
    /\ agent' = [agent EXCEPT ![s] = 0]
    /\ UNCHANGED <<secrets, agentCache, constructed, pressed,
                   selected_example, analyze_clicked, flow, created, temp_path,
                   undecoded, imgIn, imgOut>>

\* Lines 78-88, then the return to the caller: agent.run returns and the
\* result is rendered (84-86), or it raises and line 88 reports it.  The
\* upload and camera flows then unlink the file (157, 177).
AgentRun(s) ==
    /\ pc[s] = "agent_run"
    /\ \E raised \in BOOLEAN :
        ev' = [ev EXCEPT ![s] =
                  IF raised THEN <<"agent_run", "Error during analysis">>
                  ELSE <<"none", "Analysis Results">>]
    /\ exampleCalls' = [exampleCalls EXCEPT ![s] =
           IF flow[s] = "example" THEN Bump(@) ELSE @]
    /\ disk' = IF flow[s] \in {"upload", "camera"} THEN disk \ {temp_path[s]}
               ELSE disk
    /\ pc' = [pc EXCEPT ![s] = NextFlow(flow[s])]
    /\ agent' = [agent EXCEPT ![s] = 0]
    /\ UNCHANGED <<secrets, agentCache, constructed, pressed,
                   selected_example, analyze_clicked, flow, created, temp_path,
                   undecoded, imgIn, imgOut>>

Next ==
    \E s \in Sessions :
        \/ StartRun(s)
        \/ UploadFlow(s)
        \/ CameraFlow(s)
        \/ ExampleFlow(s)
        \/ GetAgent(s)
        \/ AgentRun(s)

Spec == Init /\ [][Next]_vars

\* ------------------------------------------------------------------------
\* resize_image_for_display as a function of its argument
\* ------------------------------------------------------------------------

InitResize == InitUI /\ secrets = Keys /\ imgIn \in Inputs /\ imgOut = NoOutput

\* One call of resize_image_for_display(imgIn).
Resize ==
    /\ imgOut.status = "none"
    /\ imgOut' \in ResizeTable[imgIn]
    /\ UNCHANGED <<uiVars, imgIn>>

NextResize == Resize

SpecResize == InitResize /\ [][NextResize]_vars

\* ------------------------------------------------------------------------
\* Properties
\* ------------------------------------------------------------------------

InFlight(s) == pc[s] \in {"get_agent", "agent_run"}

StreamFlows == {"upload", "camera"}

\* C1: in an upload or camera run in which save_uploaded_file returned a
\* path, the file of that run is gone once the run has ended, however the
\* analysis went (agent.run raising, get_agent raising included).
C1_TempFileGoneWhenRunEnds ==
    \A s \in Sessions :
        (temp_path[s] # NoFile /\ pc[s] = "idle") => temp_path[s] \notin disk

\* C2: when agent.run raises, analyze_image catches it: "Error during
\* analysis" is shown instead of a result, the calling flow goes on after
\* analyze_image as after a normal return, and in the upload and camera
\* flows the temporary file has been unlinked.
C2_RunFailureCaught ==
    \A s \in Sessions :
        ev[s][1] = "agent_run" =>
            /\ ev[s][2] = "Error during analysis"
            /\ pc[s] = NextFlow(flow[s])
            /\ flow[s] \in StreamFlows =>
                   (temp_path[s] # NoFile /\ temp_path[s] \notin disk)

\* C2 witness: agent.run has raised in an upload analysis.
C2_Witness ==
    \E s \in Sessions :
        /\ ev[s] = <<"agent_run", "Error during analysis">>
        /\ flow[s] = "upload"
        /\ created[s] # NoFile
        /\ created[s] \notin disk

\* A press of "Analyze Example" by session s would call analyze_image
\* (line 190), the selected example being displayable.
ExampleDispatches(s) == selected_example[s] # 0 /\ ~analyze_clicked[s]

\* C3: after a failed analysis of the selected example, pressing "Analyze
\* Example" again, without selecting anew, dispatches a new agent call.
C3_RetriggerableAfterFailure ==
    \A s \in Sessions :
        (flow[s] = "example" /\ pc[s] = "idle"
             /\ ev[s][1] \in {"agent_run", "agent_init"})
            => ExampleDispatches(s)

\* round(n / d) for n >= 0, d >= 1: Python's round, half to even.
RoundHalfEven(n, d) ==
    LET q == n \div d
        r2 == 2 * (n % d)
    IN  IF r2 < d THEN q
        ELSE IF r2 > d THEN q + 1
        ELSE IF q % 2 = 0 THEN q ELSE q + 1

Abs(n) == IF n < 0 THEN -n ELSE n

\* C4: for every decodable image of W x H pixels, the call returns an
\* image 350 wide whose height is within 1 of round(350 * H / W); a
\* 1000 x 500 image gives 350 x 175.
C4_ResizeDimensions ==
    (imgIn.img.ok /\ imgOut.status # "none") =>
        /\ imgOut.status = "ok"
        /\ imgOut.w = 350
        /\ Abs(imgOut.h - RoundHalfEven(350 * imgIn.img.h, imgIn.img.w)) <= 1
        /\ (imgIn.img.w = 1000 /\ imgIn.img.h = 500) => imgOut.h = 175

\* C5: given a stream, the read cursor after the call equals the read
\* cursor before it, whether the call returned or raised.
C5_CursorRestored ==
    (imgIn.src = "stream" /\ imgOut.status # "none") => imgOut.pos = imgIn.pos

\* C6: while analyze_clicked is true a press of "Analyze Example"
\* dispatches no agent call, and between two selections of an example card
\* at most one agent call is made for the selected example.
C6_OneAnalysisPerSelection ==
    /\ [](\A s \in Sessions : exampleCalls[s] <= 1)
    /\ [][\A s \in Sessions :
            (pc[s] = "example" /\ analyze_clicked[s]) => pc'[s] # "get_agent"]_vars

\* C6 witness: "Analyze Example" was pressed again after the one analysis
\* of the selection, and the run is about to evaluate the button.
C6_Witness ==
    \E s \in Sessions :
        /\ pc[s] = "example"
        /\ pressed[s] = "analyze_example"
        /\ analyze_clicked[s]
        /\ exampleCalls[s] = 1

\* C7: when the write fails inside save_uploaded_file, "Error saving file"
\* is shown, None is returned and no analysis is dispatched, and no file
\* created by that call remains on disk.
C7_NoFileAfterWriteFailure ==
    \A s \in Sessions :
        ev[s][1] = "write_failed" =>
            /\ ev[s][2] = "Error saving file"
            /\ temp_path[s] = NoFile
            /\ ~InFlight(s)
            /\ created[s] \notin disk

\* C8: with a credential missing from the secrets store, every run of the
\* script fails at the top level: no session gets into main(), no Agent is
\* constructed and no session holds one for agent.run.
C8_FailFastOnMissingSecret ==
    ~(Keys \subseteq secrets) =>
        /\ constructed = 0
        /\ agentCache = 0
        /\ \A s \in Sessions :
            /\ pc[s] \in {"idle", "failed"}
            /\ agent[s] = 0
            /\ flow[s] = "none"
            /\ pc[s] = "failed" => ev[s] = <<"KeyError", "uncaught">>

\* C8 witness: a run has failed with only GEMINI_KEY missing.
C8_Witness ==
    /\ secrets = {"TAVILY_KEY"}
    /\ \E s \in Sessions : pc[s] = "failed"

\* C9: the Agent is successfully constructed at most once in the process,
\* and every analyze_image call that reaches agent.run, from whatever
\* session, holds that one cached instance.
C9_SingleAgent ==
    /\ constructed <= 1
    /\ \A s \in Sessions :
        pc[s] = "agent_run" => (agent[s] # 0 /\ agent[s] = agentCache)

\* C9 witness: two sessions are in agent.run at once, with the same Agent.
C9_Witness ==
    \E s, t \in Sessions :
        /\ s # t
        /\ pc[s] = "agent_run"
        /\ pc[t] = "agent_run"
        /\ agent[s] = agent[t]
        /\ constructed = 1

\* C10 as stated: in a run in which a stream of the upload or camera flow
\* could not be decoded, save_uploaded_file is never called, no temporary
\* file is created and no agent call is made.
C10_NoSaveInRunWithUndecodableStream ==
    \A s \in Sessions :
        undecoded[s] => (created[s] = NoFile /\ flow[s] = "none" /\ ~InFlight(s))

\* C10 amended: the step of the upload or camera flow in which the stream
\* fails to decode shows that flow's error message and goes on to the next
\* flow, without a call of save_uploaded_file (no file is created, nothing
\* is returned) and without a call of analyze_image.
C10_UndecodableStreamFlowSavesNothing ==
    [][\A s \in Sessions :
        (pc[s] \in StreamFlows /\ pc'[s] # pc[s] /\ ev'[s][1] = "decode") =>
            /\ ev'[s][2] = ProcessingError(pc[s])
            /\ pc'[s] = NextFlow(pc[s])
            /\ created'[s] = created[s]
            /\ temp_path'[s] = temp_path[s]
            /\ flow'[s] = flow[s]
            /\ disk' = disk]_vars

\* C10 witness: the upload flow has just failed to decode its stream.
C10_Witness ==
    \E s \in Sessions :
        /\ ev[s] = <<"decode", "Error processing uploaded image">>
        /\ pc[s] = "camera"
        /\ created[s] = NoFile

====
